---------------------------- MODULE Spec2Model ----------------------------
(***************************************************************************)
(* A model of the color-excess tutorial notebook (src/color-excess.ipynb). *)
(*                                                                         *)
(* The notebook is a sequence of code cells that a kernel runs top to      *)
(* bottom over one global namespace.  The state of the model is that       *)
(* namespace (the names the cells bind), the objects the names refer to    *)
(* (spectra, passbands, observations), the text printed so far and the     *)
(* position of the kernel.                                                 *)
(*                                                                         *)
(* Numbers.  Python floats are modelled as binary floating-point numbers   *)
(* with a mantissa of MantBits bits, rounded to nearest-even after every   *)
(* operation, exactly as IEEE-754 does with 53 bits.  Magnitudes are kept  *)
(* in millimagnitudes (integers), wavelengths in nanometres (integers).    *)
(***************************************************************************)
EXTENDS Integers, Sequences, FiniteSets, TLC

(***************************************************************************)
(* Bounds of the model.                                                    *)
(***************************************************************************)
\* Width of the float mantissa (53 in the program's binary64).
MantBits == 12

(***************************************************************************)
(* Floating point: the arithmetic of the notebook's float and numpy        *)
(* values.  A finite value is m * 2^e with m = 0 or 2^(MantBits-1) <= m <  *)
(* 2^MantBits; inf and nan are the two non-finite results numpy returns    *)
(* for a division by zero.  Only non-negative values occur (fluxes and     *)
(* transmissions).                                                         *)
(***************************************************************************)
FZero == [c |-> "fin", m |-> 0, e |-> 0]
FInf == [c |-> "inf", m |-> 0, e |-> 0]
FNaN == [c |-> "nan", m |-> 0, e |-> 0]

IsFin(x) == x.c = "fin"
IsPos(x) == x.c = "fin" /\ x.m > 0

RECURSIVE BitLen(_)
BitLen(n) == IF n < 2 THEN n ELSE 1 + BitLen(n \div 2)

\* floor(n / d + 1/2) for an even d > 0
RoundDiv(n, d) == (n + d \div 2) \div d

\* n * 2^e rounded to MantBits bits, ties to even.
FRound(n, e) ==
  IF n = 0 THEN FZero
  ELSE LET L == BitLen(n) IN
       IF L <= MantBits
       THEN [c |-> "fin", m |-> n * 2 ^ (MantBits - L), e |-> e - (MantBits - L)]
       ELSE LET sh == L - MantBits
                q == n \div 2 ^ sh
                r == n % 2 ^ sh
                half == 2 ^ (sh - 1)
                up == r > half \/ (r = half /\ q % 2 = 1)
                q1 == IF up THEN q + 1 ELSE q
            IN IF q1 = 2 ^ MantBits
               THEN [c |-> "fin", m |-> 2 ^ (MantBits - 1), e |-> e + sh + 1]
               ELSE [c |-> "fin", m |-> q1, e |-> e + sh]

FromInt(n) == FRound(n, 0)
FOne == FromInt(1)

\* x * y
FMul(x, y) ==
  IF x.c = "nan" \/ y.c = "nan" THEN FNaN
  ELSE IF x.c = "inf" \/ y.c = "inf"
       THEN (IF (x.c = "fin" /\ x.m = 0) \/ (y.c = "fin" /\ y.m = 0) THEN FNaN ELSE FInf)
       ELSE FRound(x.m * y.m, x.e + y.e)

\* x / y with numpy's semantics: x / 0 is inf (nan for 0 / 0), with a
\* RuntimeWarning and no exception.
FDiv(x, y) ==
  IF x.c = "nan" \/ y.c = "nan" THEN FNaN
  ELSE IF y.c = "inf" THEN (IF x.c = "inf" THEN FNaN ELSE FZero)
  ELSE IF x.c = "inf" THEN FInf
  ELSE IF y.m = 0 THEN (IF x.m = 0 THEN FNaN ELSE FInf)
  ELSE IF x.m = 0 THEN FZero
  ELSE LET num == x.m * 2 ^ (MantBits + 2)
           q == num \div y.m
           sticky == IF num % y.m = 0 THEN 0 ELSE 1
       IN FRound(2 * q + sticky, x.e - y.e - (MantBits + 2) - 1)

\* x + y for non-negative x, y
FAdd(x, y) ==
  IF x.c = "nan" \/ y.c = "nan" THEN FNaN
  ELSE IF x.c = "inf" \/ y.c = "inf" THEN FInf
  ELSE IF x.m = 0 THEN y
  ELSE IF y.m = 0 THEN x
  ELSE LET hi == IF x.e >= y.e THEN x ELSE y
           lo == IF x.e >= y.e THEN y ELSE x
           d == hi.e - lo.e
       IN IF d > MantBits + 1 THEN hi
          ELSE FRound(hi.m * 2 ^ d + lo.m, lo.e)

\* x <= y for finite non-negative x, y
FLe(x, y) ==
  IF x.m = 0 THEN TRUE
  ELSE IF y.m = 0 THEN FALSE
  ELSE IF x.e # y.e THEN x.e < y.e
  ELSE x.m <= y.m

\* The distance of two finite positive values in units of the last place of
\* the smaller exponent (MantBits + 1 when they are more than a binade apart).
UlpDist(x, y) ==
  LET hi == IF x.e >= y.e THEN x ELSE y
      lo == IF x.e >= y.e THEN y ELSE x
      d == hi.e - lo.e
      a == hi.m * 2 ^ d - lo.m
  IN IF d > 1 THEN 2 ^ MantBits ELSE IF a < 0 THEN -a ELSE a

(***************************************************************************)
(* Magnitudes.  10.0 ** (-0.4 * m) and -2.5 * log10(x) are computed through *)
(* base-2 logarithms in fixed point: Log2Frac bits after the binary point  *)
(* and mantissas of FixBits bits.                                          *)
(***************************************************************************)
\* One magnitude, in the model's unit (millimagnitudes).
MagUnit == 1000
\* Fractional bits of a base-2 logarithm; bits of a fixed-point mantissa.
Log2Frac == 12
FixBits == 14
\* 2^(2^-i) for i = 1..Log2Frac, times 2^FixBits.
Root2 == <<23170, 19484, 17867, 17109, 16743, 16562, 16473, 16428, 16406, 16395, 16390, 16387>>
\* 0.4 * log2(10) magnitudes^-1 times 2^Log2Frac, in 1/10000: one
\* millimagnitude is 5.4426 units of the logarithm.
Log2PerMilliMag == 54426
\* 2.5 * log10(2) = 0.75257 magnitudes, in 1/100 of a millimagnitude.
CentiMilliMagPerLog2 == 75257

\* y * 2^(sum of 2^-i over the bits i..Log2Frac set in f), y in fixed point
RECURSIVE Exp2Frac(_, _, _)
Exp2Frac(y, f, i) ==
  IF i > Log2Frac THEN y
  ELSE LET w == 2 ^ (Log2Frac - i) IN
       IF f >= w
       THEN Exp2Frac(RoundDiv(y * Root2[i], 2 ^ FixBits), f - w, i + 1)
       ELSE Exp2Frac(y, f, i + 1)

\* 10.0 ** (-0.4 * a), a in millimagnitudes
Pow10m04(a) ==
  LET t == - RoundDiv(a * Log2PerMilliMag, 10000)
      q == t \div 2 ^ Log2Frac
      f == t % 2 ^ Log2Frac
  IN FRound(Exp2Frac(2 ^ FixBits, f, 1), q - FixBits)

\* The Log2Frac fractional bits of log2(y / 2^FixBits), 2^FixBits <= y < 2^(FixBits+1)
RECURSIVE Log2FracOf(_, _)
Log2FracOf(y, i) ==
  IF i > Log2Frac THEN 0
  ELSE LET z == (y * y) \div 2 ^ FixBits IN
       IF z >= 2 ^ (FixBits + 1)
       THEN 2 ^ (Log2Frac - i) + Log2FracOf(z \div 2, i + 1)
       ELSE Log2FracOf(z, i + 1)

\* -2.5 * log10(x) in millimagnitudes, x finite and positive
MagOf(x) ==
  LET y == x.m * 2 ^ (FixBits - (MantBits - 1))
      E == x.e + MantBits - 1
      frac == Log2FracOf(y, 1)
      centi == E * CentiMilliMagPerLog2 + (frac * CentiMilliMagPerLog2) \div 2 ^ Log2Frac
  IN - RoundDiv(centi, 100)

(***************************************************************************)
(* Wavelengths, passbands and tabulated data.                              *)
(*                                                                         *)
(* Wavelengths are integers in nanometres.  A tabulated function is a pair *)
(* of arrays (sequences) of the same length, wl (increasing) and its       *)
(* values; a source spectrum is sampled at the wavelengths Pts, the union  *)
(* of the passbands' sample wavelengths.                                   *)
(***************************************************************************)
\* bands = [u_band, b_band, v_band, r_band, i_band, j_band, h_band, k_band]
BandNames == <<"u", "b", "v", "r", "i", "j", "h", "k">>

\* The sample wavelengths of the passband files (three samples a passband).
BandWl(name) ==
  CASE name = "u" -> <<330, 365, 400>>
    [] name = "b" -> <<390, 440, 490>>
    [] name = "v" -> <<480, 550, 640>>
    [] name = "r" -> <<560, 700, 860>>
    [] name = "i" -> <<720, 900, 1100>>
    [] name = "j" -> <<1060, 1250, 1420>>
    [] name = "h" -> <<1480, 1650, 1820>>
    [] name = "k" -> <<1960, 2200, 2460>>

Range(seq) == {seq[i] : i \in DOMAIN seq}

Pts == UNION {Range(BandWl(BandNames[i])) : i \in DOMAIN BandNames}

\* A finite set of integers as an increasing sequence.
RECURSIVE SortedSeq(_)
SortedSeq(S) ==
  IF S = {} THEN <<>>
  ELSE LET lo == CHOOSE x \in S : \A y \in S : x <= y
       IN <<lo>> \o SortedSeq(S \ {lo})

PtsSeq == SortedSeq(Pts)

\* The throughput tables of the passband files, in percent: the files are
\* external data, and the model knows these sets of them.
FilterSets == {"peaked", "skewed"}
FilterTable(set, name) ==
  IF set = "peaked" THEN <<30, 90, 20>>
  ELSE IF name \in {"u", "b", "v"} THEN <<60, 80, 5>> ELSE <<10, 70, 50>>

\* Photon flux density of a blackbody at the sample wavelengths (Planck's
\* law, arbitrary normalisation), for the temperatures the model knows.
Temperatures == {5000, 10000, 30000}
PlanckTable(T) ==
  CASE T = 5000 ->
         (330 :> 792 @@ 365 :> 1221 @@ 390 :> 1552 @@ 400 :> 1687 @@ 440 :> 2218 @@
          480 :> 2703 @@ 490 :> 2813 @@ 550 :> 3372 @@ 560 :> 3446 @@ 640 :> 3860 @@
          700 :> 3986 @@ 720 :> 4000 @@ 860 :> 3832 @@ 900 :> 3729 @@ 1060 :> 3225 @@
          1100 :> 3092 @@ 1250 :> 2614 @@ 1420 :> 2143 @@ 1480 :> 1997 @@ 1650 :> 1640 @@
          1820 :> 1355 @@ 1960 :> 1164 @@ 2200 :> 908 @@ 2460 :> 705)
    [] T = 10000 ->
         (330 :> 3915 @@ 365 :> 4000 @@ 390 :> 3973 @@ 400 :> 3947 @@ 440 :> 3780 @@
          480 :> 3549 @@ 490 :> 3485 @@ 550 :> 3090 @@ 560 :> 3024 @@ 640 :> 2523 @@
          700 :> 2192 @@ 720 :> 2092 @@ 860 :> 1514 @@ 900 :> 1384 @@ 1060 :> 984 @@
          1100 :> 907 @@ 1250 :> 679 @@ 1420 :> 502 @@ 1480 :> 455 @@ 1650 :> 347 @@
          1820 :> 271 @@ 1960 :> 224 @@ 2200 :> 166 @@ 2460 :> 123)
    [] T = 30000 ->
         (330 :> 4000 @@ 365 :> 3219 @@ 390 :> 2776 @@ 400 :> 2621 @@ 440 :> 2101 @@
          480 :> 1707 @@ 490 :> 1623 @@ 550 :> 1221 @@ 560 :> 1167 @@ 640 :> 830 @@
          700 :> 658 @@ 720 :> 611 @@ 860 :> 381 @@ 900 :> 337 @@ 1060 :> 215 @@
          1100 :> 194 @@ 1250 :> 136 @@ 1420 :> 95 @@ 1480 :> 85 @@ 1650 :> 62 @@
          1820 :> 47 @@ 1960 :> 38 @@ 2200 :> 27 @@ 2460 :> 20)

\* The flux table of the Vega file (the zero point), external data.
VegaTable ==
  (330 :> 3838 @@ 365 :> 3987 @@ 390 :> 4000 @@ 400 :> 3988 @@ 440 :> 3867 @@
   480 :> 3667 @@ 490 :> 3610 @@ 550 :> 3238 @@ 560 :> 3174 @@ 640 :> 2678 @@
   700 :> 2343 @@ 720 :> 2240 @@ 860 :> 1638 @@ 900 :> 1502 @@ 1060 :> 1075 @@
   1100 :> 993 @@ 1250 :> 747 @@ 1420 :> 554 @@ 1480 :> 502 @@ 1650 :> 385 @@
   1820 :> 301 @@ 1960 :> 249 @@ 2200 :> 185 @@ 2460 :> 137)

(***************************************************************************)
(* Extinction laws (dust_extinction): A(lambda)/A(V) in 1/1000, of the two *)
(* models the notebook imports.  A model holds its Rv; evaluating it at a  *)
(* wavelength outside its range raises ValueError.                         *)
(***************************************************************************)
\* The range of the models, 0.3 <= 1/lambda <= 10 per micron, in nanometres.
LawRange(law) == [lo |-> 100, hi |-> 3333]

\* A(lambda)/A(V) of CCM89 with Rv = 3.1 at the sample wavelengths.
CCM89Table ==
  (100 :> 5238 @@ 330 :> 1656 @@ 365 :> 1557 @@ 390 :> 1494 @@ 400 :> 1465 @@ 440 :> 1325 @@
   480 :> 1184 @@ 490 :> 1152 @@ 550 :> 999 @@ 560 :> 979 @@ 640 :> 843 @@
   700 :> 750 @@ 720 :> 719 @@ 860 :> 519 @@ 900 :> 479 @@ 1060 :> 368 @@
   1100 :> 347 @@ 1250 :> 282 @@ 1420 :> 230 @@ 1480 :> 215 @@ 1650 :> 180 @@
   1820 :> 154 @@ 1960 :> 137 @@ 2200 :> 114 @@ 2460 :> 95 @@ 2999 :> 69)

\* A(lambda)/A(V) of F99 with Rv = 5.0 at the wavelengths of Example 2.
F99Table ==
  (200 :> 1862 @@ 218 :> 2103 @@ 250 :> 1676 @@ 300 :> 1478 @@
   366 :> 1329 @@ 440 :> 1201 @@ 553 :> 995)

\* A(lambda)/A(V) at wavelength w: the tables hold the values the model
\* needs; another wavelength gets the nearest tabulated one.
NearestIn(S, w) ==
  CHOOSE x \in S : \A y \in S :
    LET dx == IF x >= w THEN x - w ELSE w - x
        dy == IF y >= w THEN y - w ELSE w - y
    IN dx < dy \/ (dx = dy /\ x <= y)

LawValue(ext, w) ==
  LET tab == IF ext.law = "CCM89" THEN CCM89Table ELSE F99Table
  IN tab[NearestIn(DOMAIN tab, w)]

\* A variant of the range check that looks at the short end only.
LawInRangeShortEnd(ext, wls) == \A w \in wls : 100 <= w

\* ext(wav): the model evaluated on an array of wavelengths; "ValueError"
\* when one of them is outside the model's range.
LawInRange(ext, wls) ==
  \A w \in wls : LawRange(ext.law).lo <= w /\ w <= LawRange(ext.law).hi

\* np.arange(0.1, 3.0, 0.001) * u.micron, in nanometres
Arange(start, stop, step) == {w \in start .. stop - 1 : (w - start) % step = 0}

(***************************************************************************)
(* synphot objects.                                                        *)
(*   source   [type, kind, wlo, whi, flux]: a SourceSpectrum; flux is its  *)
(*            value at each wavelength of Pts; an "empirical" one is a     *)
(*            table over wlo..whi, an "analytic" one has the wavelength    *)
(*            set wlo..whi of its model.                                   *)
(*   element  [type, wl, th]: a SpectralElement (a passband or a reddening *)
(*            curve), the table th over the wavelengths wl.                *)
(*   obs      [type, spec, band, extrap]: an Observation, which refers to  *)
(*            its spectrum and its passband.                               *)
(***************************************************************************)
Source(kind, wlo, whi, flux) ==
  [type |-> "source", kind |-> kind, wlo |-> wlo, whi |-> whi, flux |-> flux]

Element(wl, th) == [type |-> "element", wl |-> wl, th |-> th]

Min(S) == CHOOSE x \in S : \A y \in S : x <= y
Max(S) == CHOOSE x \in S : \A y \in S : x >= y

\* Wien's displacement constant in nanometre kelvin, and the factor of the
\* blackbody model's bounding box.
WienNmK == 2897772
BBoxFactor == 10

\* SourceSpectrum(BlackBodyNorm1D, temperature=T): the model evaluates at
\* any wavelength, and its wavelength set runs from 1 Angstrom to
\* (1 + BBoxFactor) times the wavelength of the peak.
BlackBody(T) ==
  Source("analytic", 0, ((1 + BBoxFactor) * WienNmK) \div T,
         [w \in Pts |-> FromInt(PlanckTable(T)[w])])

\* SourceSpectrum.from_vega()
FromVega == Source("empirical", 90, 300000, [w \in Pts |-> FromInt(VegaTable[w])])

\* SpectralElement.from_filter(name), from the files of filter set fs
FromFilter(fs, name) ==
  Element(BandWl(name),
          [i \in 1..Len(BandWl(name)) |->
             FDiv(FromInt(FilterTable(fs, name)[i]), FromInt(100))])

\* The value of an element at wavelength w: its table, and 0 outside it.
ElemAt(el, w) ==
  IF w < el.wl[1] \/ w > el.wl[Len(el.wl)] THEN FZero
  ELSE LET i == CHOOSE j \in DOMAIN el.wl : el.wl[j] = NearestIn(Range(el.wl), w)
       IN el.th[i]

\* The value of a source at wavelength w of Pts.  Outside the table of an
\* empirical source it is the table's nearest value when the source is
\* extrapolated, and 0 otherwise.
SourceAt(sp, w, extrap) ==
  IF sp.kind = "analytic" \/ (sp.wlo <= w /\ w <= sp.whi) THEN sp.flux[w]
  ELSE IF ~extrap THEN FZero
  ELSE IF w < sp.wlo THEN sp.flux[sp.wlo] ELSE sp.flux[sp.whi]

\* Trapezoid rule over the sample points wl of the values y.
RECURSIVE TrapzFrom(_, _, _)
TrapzFrom(wl, y, i) ==
  IF i >= Len(wl) THEN FZero
  ELSE FAdd(FDiv(FMul(FromInt(wl[i + 1] - wl[i]), FAdd(y[i], y[i + 1])), FromInt(2)),
            TrapzFrom(wl, y, i + 1))

Trapz(wl, y) == TrapzFrom(wl, y, 1)

\* (sp * band).integrate(): the integral of flux times throughput
Integrate(sp, band, extrap) ==
  Trapz(band.wl, [i \in DOMAIN band.wl |-> FMul(SourceAt(sp, band.wl[i], extrap), band.th[i])])

\* The integral of wavelength times flux times throughput
IntegrateWl(sp, band, extrap) ==
  Trapz(band.wl, [i \in DOMAIN band.wl |->
                    FMul(FromInt(band.wl[i]),
                         FMul(SourceAt(sp, band.wl[i], extrap), band.th[i]))])

\* band.check_overlap(sp): "full", "partial_most" (less than 1% of the
\* band's integrated throughput lies outside the source's table),
\* "partial_notmost" or "none".  Only wavelengths of non-zero throughput
\* count.
Support(band) == {band.wl[i] : i \in {j \in DOMAIN band.wl : band.th[j].m > 0}}

\* The band's integral over the part of its support outside lo..hi, each
\* part by the trapezoid of its two ends.
Excluded(band, amin, amax, lo, hi) ==
  FAdd(IF amin < lo
       THEN FDiv(FMul(FromInt(lo - amin), FAdd(ElemAt(band, amin), ElemAt(band, lo))),
                 FromInt(2))
       ELSE FZero,
       IF amax > hi
       THEN FDiv(FMul(FromInt(amax - hi), FAdd(ElemAt(band, hi), ElemAt(band, amax))),
                 FromInt(2))
       ELSE FZero)

CheckOverlap(band, sp) ==
  LET a == Support(band)
      amin == Min(a)
      amax == Max(a)
      total == Trapz(band.wl, band.th)
  IN IF sp.wlo <= amin /\ amax <= sp.whi THEN "full"
     ELSE IF amax < sp.wlo \/ amin > sp.whi THEN "none"
     ELSE IF ~FLe(total, FMul(Excluded(band, amin, amax, sp.wlo, sp.whi), FromInt(100)))
          THEN "partial_most"
          ELSE "partial_notmost"

\* A variant of the constructor's check that accepts every overlap.
ObservationCheckLenient(sp, band, force) == [err |-> "", extrap |-> force = "extrap"]

\* Observation(sp, band, force=...): the overlap check of the constructor.
\* err is "" when the Observation is built; extrap tells whether it
\* evaluates the source outside its table by extrapolation.
ObservationCheck(sp, band, force) ==
  LET stat == CheckOverlap(band, sp)
  IN CASE stat = "full" -> [err |-> "", extrap |-> FALSE]
       [] stat = "partial_most" -> [err |-> "", extrap |-> force = "extrap"]
       [] stat = "partial_notmost" ->
            IF force = "extrap" THEN [err |-> "", extrap |-> TRUE]
            ELSE [err |-> "PartialOverlap", extrap |-> FALSE]
       [] stat = "none" -> [err |-> "DisjointError", extrap |-> FALSE]

\* obs.effstim(flux_unit="vegamag", vegaspec=vega), in millimagnitudes:
\* -2.5 log10 of the ratio of the integrals of the source and of Vega
\* through the band; "SynphotError" when an integral is not positive.
FluxToMag(num, den) ==
  IF ~IsPos(num) \/ ~IsPos(den) THEN [err |-> "SynphotError", val |-> 0]
  ELSE [err |-> "", val |-> MagOf(FDiv(num, den))]

EffStim(sp, band, extrap, vega) ==
  FluxToMag(Integrate(sp, band, extrap), Integrate(vega, band, FALSE))

\* obs.effective_wavelength(): the flux-weighted mean wavelength
EffectiveWavelength(sp, band, extrap) ==
  FDiv(IntegrateWl(sp, band, extrap), Integrate(sp, band, extrap))

\* sp * const
Scale(sp, const) == [sp EXCEPT !.flux = [w \in Pts |-> FMul(sp.flux[w], const)]]

\* A variant of the normalization that scales by the target magnitude alone,
\* whatever the magnitude of sp.
NormalizeAbsolute(sp, m, band, vega) == [err |-> "", val |-> Scale(sp, Pow10m04(m))]

\* sp.normalize(m * VEGAMAG, band, vegaspec=vega): a new source, sp scaled
\* so that its magnitude through band is m.
Normalize(sp, m, band, vega) ==
  LET stat == CheckOverlap(band, sp)
      total == Integrate(sp, band, FALSE)
      std == Integrate(vega, band, FALSE)
  IN IF stat = "none" THEN [err |-> "DisjointError"]
     ELSE IF stat = "partial_notmost" THEN [err |-> "PartialOverlap"]
     ELSE IF ~IsPos(total) \/ ~IsPos(std) THEN [err |-> "SynphotError"]
     ELSE [err |-> "",
           val |-> Scale(sp, Pow10m04(m - MagOf(FDiv(total, std))))]

\* sp * el: a new source, the flux of sp times the element's value
Multiply(sp, el) ==
  Source(sp.kind,
         IF sp.wlo <= el.wl[1] THEN sp.wlo ELSE el.wl[1],
         IF sp.whi >= el.wl[Len(el.wl)] THEN sp.whi ELSE el.wl[Len(el.wl)],
         [w \in Pts |-> FMul(sp.flux[w], ElemAt(el, w))])

\* A(lambda) in millimagnitudes for a model ext and a reddening of ebv
\* (in 1/1000 mag): A(lambda)/A(V) * Rv * E(B-V)
ALambda(ext, w, ebv) ==
  RoundDiv(LawValue(ext, w) * RoundDiv(ext.Rv * ebv, 1000), 1000)

\* ext.extinguish(w, Ebv=ebv): 10 ** (-0.4 * A(lambda)), the fraction of
\* the flux that remains
Extinguish(ext, w, ebv) == Pow10m04(ALambda(ext, w, ebv))

\* ReddeningLaw(ext).extinction_curve(ebv, wavelengths=wav): the element
\* tabulating 10 ** (-0.4 * A(lambda)) over wav; the model keeps the
\* wavelengths of Pts and the two ends of wav.
ExtinctionCurve(ext, ebv, wav) ==
  IF ~LawInRange(ext, wav) THEN [err |-> "ValueError"]
  ELSE LET wl == SortedSeq((Pts \cap wav) \cup {Min(wav), Max(wav)})
       IN [err |-> "",
           val |-> Element(wl, [i \in DOMAIN wl |-> Extinguish(ext, wl[i], ebv)])]

(***************************************************************************)
(* Example 2: photometry to flux.                                          *)
(***************************************************************************)
\* 10 ** j as a float
RECURSIVE FPow10(_)
FPow10(j) == IF j = 0 THEN FOne ELSE FMul(FromInt(10), FPow10(j - 1))

\* n * 10 ** k
FDec(n, k) ==
  IF k >= 0 THEN FMul(FromInt(n), FPow10(k)) ELSE FDiv(FromInt(n), FPow10(-k))

\* zeroflux_nu.to(erg / AA / cm / cm / s, equivalencies=u.spectral_density(w)):
\* F_lambda = F_nu * c / lambda^2, F_nu in W / m^2 / Hz, w in nanometres
SpectralDensity(fnu, w) ==
  FDiv(FMul(fnu, FDec(299792458, 13)), FromInt((10 * w) * (10 * w)))

\* A variant of the conversion with the sign of the exponent lost.
MagToFluxBrighter(zeroflux, mag) == FMul(zeroflux, Pow10m04(- mag))

\* zeroflux * 10.0 ** (-0.4 * mag)
MagToFlux(zeroflux, mag) == FMul(zeroflux, Pow10m04(mag))

\* A variant of the dereddening that multiplies.
DereddenByProduct(flux, trans) == FMul(flux, trans)

\* flux / ext.extinguish(w, Ebv=Ebv)
Deredden(flux, trans) == FDiv(flux, trans)

\* flux * ext.extinguish(w, Ebv=Ebv)
Redden(flux, trans) == FMul(flux, trans)

(***************************************************************************)
(* Example 3: extinction and color excess from magnitudes.                 *)
(***************************************************************************)
\* A variant of the extinction with the operands exchanged.
ExtinctionSwapped(magWithDust, magWithoutDust) == magWithoutDust - magWithDust

\* Av_calc = sp_stim - sp_stim_before
Extinction(magWithDust, magWithoutDust) == magWithDust - magWithoutDust

\* A variant of the color excess that adds the reference instead.
ColorExcessSum(extinctionAtBand, extinctionAtReference) ==
  extinctionAtBand + extinctionAtReference

\* color_excess = obs_effstim - obs_i_effstim - Av_calc
ColorExcess(extinctionAtBand, extinctionAtReference) ==
  extinctionAtBand - extinctionAtReference

\* np.round(x, 1) of a magnitude: to 0.1 mag; np.round(x, 2): to 0.01 mag
Round1(mag) == 100 * RoundDiv(mag, 100)
Round2(mag) == 10 * RoundDiv(mag, 10)

(***************************************************************************)
(* The world outside the notebook: the archive's spectrum, the catalogue's *)
(* photometry, the passband files, and the temperature written in the     *)
(* blackbody cell (the exercise asks the reader to change it).             *)
(***************************************************************************)
\* The IUE spectrum lwr05639: wavelengths (nm) and fluxes (in 1e-13
\* erg / s / cm^2 / AA), as the archive may hold it.
IueSpectra ==
  { [wl |-> <<200, 218, 250, 300>>, flux |-> <<310, 120, 540, 980>>],
    [wl |-> <<200, 218, 250, 300>>, flux |-> <<77, 31, 133, 0>>] }

\* U, B, V of HD 147933 as the catalogue may hold them (millimagnitudes).
Photometry ==
  { [U |-> 4930, B |-> 5260, V |-> 5020], [U |-> 5113, B |-> 5307, V |-> 5051] }

Worlds ==
  [temperature : Temperatures, filters : FilterSets, iue : IueSpectra, phot : Photometry]

(***************************************************************************)
(* The notebook as a state machine: "Run All" executes the code cells top  *)
(* to bottom and stops at the first cell that raises.                      *)
(*   world    what the archive, the catalogue and the passband files hold  *)
(*   pc       index in Cells of the next cell to run                       *)
(*   loop_i   position in the band loop of the last cell                   *)
(*   err      the exception that stopped the run, "" while none            *)
(*   heap     the synphot objects created so far; names hold indices       *)
(*   ns       the notebook's global names                                  *)
(*   out      what the cells printed and plotted, in order                 *)
(*   call     the operation applied on its own (second specification): its *)
(*            arguments and its outcome                                    *)
(*   par      the iterations of the band loop run as tasks by workers      *)
(*            (third specification): the next band to hand out, each       *)
(*            worker's task with the names it binds, and each band's       *)
(*            result                                                       *)
(***************************************************************************)
VARIABLES world, pc, loop_i, err, heap, ns, out, call, par

Cells ==
  << "example1", "read_spectrum", "query_simbad", "zero_points", "convert",
     "mag_to_flux", "plot_spectrum", "set_extinction", "plot_dereddened",
     "filters", "normalize", "redden", "observe", "av_calc", "band_loop" >>

NoCall == [op |-> "none"]
NoPar == [next |-> 0]
NoLaw == [law |-> "", Rv |-> 0]
NoArange == [start |-> 0, stop |-> 0, step |-> 1]

NS0 ==
  [ wav |-> NoArange, ext |-> NoLaw,
    wav_UV |-> << >>, UVflux |-> << >>,
    Umag |-> 0, Bmag |-> 0, Vmag |-> 0,
    wav_U |-> 0, wav_B |-> 0, wav_V |-> 0,
    zeroflux_U_nu |-> FZero, zeroflux_B_nu |-> FZero, zeroflux_V_nu |-> FZero,
    zeroflux_U |-> FZero, zeroflux_B |-> FZero, zeroflux_V |-> FZero,
    Uflux |-> FZero, Bflux |-> FZero, Vflux |-> FZero,
    Rv |-> 0, Ebv |-> 0,
    u_band |-> 0, b_band |-> 0, v_band |-> 0, r_band |-> 0,
    i_band |-> 0, j_band |-> 0, h_band |-> 0, k_band |-> 0,
    sp |-> 0, vega |-> 0, vmag |-> 0, sp_norm |-> 0,
    Av |-> 0, ex |-> 0, sp_ext |-> 0,
    sp_obs |-> 0, sp_obs_before |-> 0,
    sp_stim_before |-> 0, sp_stim |-> 0, Av_calc |-> 0,
    bands |-> << >>, band |-> 0,
    obs_effstim |-> 0, sp_obs_i |-> 0, obs_i_effstim |-> 0, color_excess |-> 0 ]

vars == <<world, pc, loop_i, err, heap, ns, out, call, par>>

Init ==
  /\ world \in Worlds
  /\ pc = 1
  /\ loop_i = 0
  /\ err = ""
  /\ heap = << >>
  /\ ns = NS0
  /\ out = << >>
  /\ call = NoCall
  /\ par = NoPar

\* The cell named c is the next to run.
Ready(c) == err = "" /\ pc <= Len(Cells) /\ Cells[pc] = c

\* The wavelengths of an np.arange record.
Grid(a) == Arange(a.start, a.stop, a.step)

\* The nearest integer to a finite float.
FToInt(x) == IF x.e >= 0 THEN x.m * 2 ^ x.e ELSE RoundDiv(x.m, 2 ^ (- x.e))

\* Example 1: the extinction curves of CCM89 and F99 for Rv = 2, 3, 4 over
\* wav = np.arange(0.1, 3.0, 0.001) microns.
Example1 ==
  /\ Ready("example1")
  /\ LET w == [start |-> 100, stop |-> 3000, step |-> 1]
         laws == << [law |-> "CCM89", Rv |-> 2000], [law |-> "CCM89", Rv |-> 3000],
                    [law |-> "CCM89", Rv |-> 4000], [law |-> "F99", Rv |-> 2000],
                    [law |-> "F99", Rv |-> 3000], [law |-> "F99", Rv |-> 4000] >>
         bad == {i \in DOMAIN laws : ~LawInRange(laws[i], Grid(w))}
         last == IF bad = {} THEN Len(laws) ELSE CHOOSE i \in bad : \A j \in bad : i <= j
     IN /\ ns' = [ns EXCEPT !.wav = w, !.ext = laws[last]]
        /\ err' = IF bad = {} THEN "" ELSE "ValueError"
        /\ out' = IF bad = {} THEN Append(out, [kind |-> "plot", cell |-> "example1"])
                  ELSE out
        /\ pc' = IF bad = {} THEN pc + 1 ELSE pc
  /\ UNCHANGED <<par, call, world, loop_i, heap>>

\* wav_UV and UVflux from the table read from the downloaded IUE file.
ReadSpectrum ==
  /\ Ready("read_spectrum")
  /\ ns' = [ns EXCEPT !.wav_UV = world.iue.wl,
                      !.UVflux = [i \in DOMAIN world.iue.flux |->
                                    FDec(world.iue.flux[i], -13)]]
  /\ pc' = pc + 1
  /\ UNCHANGED <<par, call, world, loop_i, err, heap, out>>

\* Umag, Bmag, Vmag from Simbad.
QuerySimbad ==
  /\ Ready("query_simbad")
  /\ ns' = [ns EXCEPT !.Umag = world.phot.U, !.Bmag = world.phot.B,
                      !.Vmag = world.phot.V]
  /\ pc' = pc + 1
  /\ UNCHANGED <<par, call, world, loop_i, err, heap, out>>

\* The effective wavelengths and zero points of U, B and V.
ZeroPoints ==
  /\ Ready("zero_points")
  /\ ns' = [ns EXCEPT !.wav_U = 366, !.zeroflux_U_nu = FDec(181, -25),
                      !.wav_B = 440, !.zeroflux_B_nu = FDec(426, -25),
                      !.wav_V = 553, !.zeroflux_V_nu = FDec(364, -25)]
  /\ pc' = pc + 1
  /\ UNCHANGED <<par, call, world, loop_i, err, heap, out>>

\* The zero points converted to flux per unit wavelength.
Convert ==
  /\ Ready("convert")
  /\ ns' = [ns EXCEPT !.zeroflux_U = SpectralDensity(ns.zeroflux_U_nu, ns.wav_U),
                      !.zeroflux_B = SpectralDensity(ns.zeroflux_B_nu, ns.wav_B),
                      !.zeroflux_V = SpectralDensity(ns.zeroflux_V_nu, ns.wav_V)]
  /\ pc' = pc + 1
  /\ UNCHANGED <<par, call, world, loop_i, err, heap, out>>

\* Uflux = zeroflux_U * 10.0 ** (-0.4 * Umag), and so for B and V.
MagToFluxCell ==
  /\ Ready("mag_to_flux")
  /\ ns' = [ns EXCEPT !.Uflux = MagToFlux(ns.zeroflux_U, ns.Umag),
                      !.Bflux = MagToFlux(ns.zeroflux_B, ns.Bmag),
                      !.Vflux = MagToFlux(ns.zeroflux_V, ns.Vmag)]
  /\ pc' = pc + 1
  /\ UNCHANGED <<par, call, world, loop_i, err, heap, out>>

\* The spectrum and the three photometric points, plotted.
PlotSpectrum ==
  /\ Ready("plot_spectrum")
  /\ out' = Append(out, [kind |-> "plot", cell |-> "plot_spectrum"])
  /\ pc' = pc + 1
  /\ UNCHANGED <<par, call, world, loop_i, err, heap, ns>>

\* Rv = 5.0; Ebv = 0.5; ext = F99(Rv=Rv)
SetExtinction ==
  /\ Ready("set_extinction")
  /\ ns' = [ns EXCEPT !.Rv = 5000, !.Ebv = 500, !.ext = [law |-> "F99", Rv |-> 5000]]
  /\ pc' = pc + 1
  /\ UNCHANGED <<par, call, world, loop_i, err, heap, out>>

\* The observed fluxes divided by ext.extinguish(wavelength, Ebv=Ebv), plotted.
PlotDereddened ==
  /\ Ready("plot_dereddened")
  /\ LET ok == LawInRange(ns.ext, Range(ns.wav_UV) \cup {ns.wav_V, ns.wav_B, ns.wav_U})
         d(f, w) == Deredden(f, Extinguish(ns.ext, w, ns.Ebv))
     IN /\ err' = IF ok THEN "" ELSE "ValueError"
        /\ pc' = IF ok THEN pc + 1 ELSE pc
        /\ out' = IF ok
                  THEN Append(out,
                         [kind |-> "semilogy", cell |-> "plot_dereddened",
                          UV |-> [i \in DOMAIN ns.UVflux |-> d(ns.UVflux[i], ns.wav_UV[i])],
                          V |-> d(ns.Vflux, ns.wav_V), B |-> d(ns.Bflux, ns.wav_B),
                          U |-> d(ns.Uflux, ns.wav_U)])
                  ELSE out
  /\ UNCHANGED <<par, call, world, loop_i, heap, ns>>

(***************************************************************************)
(* Example 3 cells.  A synphot object lives in the heap; a name holds its  *)
(* index, so two names can refer to one object.                            *)
(***************************************************************************)
Observation(spec, band, extrap) ==
  [type |-> "obs", spec |-> spec, band |-> band, extrap |-> extrap]

\* A variant of the product that also overwrites its left operand.
HeapMultiplyInPlace(h, a, b) ==
  Append([h EXCEPT ![a] = Multiply(h[a], h[b])], Multiply(h[a], h[b]))

\* self * other for a source and an element of the heap h: the product is a
\* new object, appended to the heap.
HeapMultiply(h, a, b) == Append(h, Multiply(h[a], h[b]))

\* sp.normalize(...) for a source of the heap h: the normalized spectrum is
\* a new object, appended to the heap.
HeapScale(h, a, scaled) == Append(h, scaled)

\* obs.effstim(flux_unit="vegamag", vegaspec=vega) for an observation of h
ObsEffStim(h, o, vega) ==
  EffStim(h[h[o].spec], h[h[o].band], h[o].extrap, h[vega])

\* obs.effective_wavelength() for an observation of h
ObsEffectiveWavelength(h, o) ==
  EffectiveWavelength(h[h[o].spec], h[h[o].band], h[o].extrap)

\* The eight passbands read from the filter files.
Filters ==
  /\ Ready("filters")
  /\ LET n == Len(heap) IN
       /\ heap' = heap \o [i \in 1 .. Len(BandNames) |->
                             FromFilter(world.filters, BandNames[i])]
       /\ ns' = [ns EXCEPT !.u_band = n + 1, !.b_band = n + 2, !.v_band = n + 3,
                           !.r_band = n + 4, !.i_band = n + 5, !.j_band = n + 6,
                           !.h_band = n + 7, !.k_band = n + 8]
  /\ pc' = pc + 1
  /\ UNCHANGED <<par, call, world, loop_i, err, out>>

\* A cell that stops with the exception e, the statements before the
\* failing one having left the heap h and the names nsv.
Raise(e, h, nsv) ==
  /\ err' = e /\ heap' = h /\ ns' = nsv
  /\ UNCHANGED <<par, call, world, pc, loop_i, out>>

\* sp_norm = sp.normalize(vmag * units.VEGAMAG, v_band, vegaspec=vega), with
\* r the outcome of the normalization
NormalizeStmt(h, nsv, r) ==
  IF r.err # "" THEN Raise(r.err, h, nsv)
  ELSE /\ heap' = HeapScale(h, nsv.sp, r.val)
       /\ ns' = [nsv EXCEPT !.sp_norm = Len(h) + 1]
       /\ pc' = pc + 1
       /\ UNCHANGED <<par, call, world, loop_i, err, out>>

\* sp, vega, vmag and v_band, then the normalization
NormalizeBind(h, nsv) ==
  NormalizeStmt(h, nsv, Normalize(h[nsv.sp], nsv.vmag, h[nsv.v_band], h[nsv.vega]))

\* The blackbody, Vega, and the blackbody normalized to vmag = 10 in V.
NormalizeCell ==
  /\ Ready("normalize")
  /\ NormalizeBind(heap \o << BlackBody(world.temperature), FromVega,
                              FromFilter(world.filters, "v") >>,
                   [ns EXCEPT !.sp = Len(heap) + 1, !.vega = Len(heap) + 2,
                              !.vmag = 10000, !.v_band = Len(heap) + 3])

\* ex = ReddeningLaw(ext).extinction_curve(Av / ext.Rv, wavelengths=wav) and
\* sp_ext = sp_norm * ex, with r the outcome of the evaluation of the law
ReddenStmt(nsv, r) ==
  IF r.err # "" THEN Raise(r.err, heap, nsv)
  ELSE /\ heap' = HeapMultiply(Append(heap, r.val), nsv.sp_norm, Len(heap) + 1)
       /\ ns' = [nsv EXCEPT !.ex = Len(heap) + 1, !.sp_ext = Len(heap) + 2]
       /\ pc' = pc + 1
       /\ UNCHANGED <<par, call, world, loop_i, err, out>>

\* The curve built with Ebv = Av, the division by Rv forgotten.
ReddenBindNoRv(nsv) ==
  ReddenStmt(nsv, ExtinctionCurve(nsv.ext, nsv.Av, Grid(nsv.wav)))

\* ext, Av and wav, then the curve
ReddenBind(nsv) ==
  ReddenStmt(nsv, ExtinctionCurve(nsv.ext, RoundDiv(nsv.Av * 1000, nsv.ext.Rv),
                                  Grid(nsv.wav)))

\* A variant of the cell that builds the curve from CCM89(Rv=3.1) without
\* binding the model to ext.
ReddenCellKeepsExt ==
  /\ Ready("redden")
  /\ ReddenStmt([ns EXCEPT !.Av = 2000,
                           !.wav = [start |-> 100, stop |-> 3000, step |-> 1]],
                ExtinctionCurve([law |-> "CCM89", Rv |-> 3100],
                                RoundDiv(2000 * 1000, 3100), Arange(100, 3000, 1)))

\* ext = CCM89(Rv=3.1); Av = 2.0; the extinction curve of Av over wav, and
\* the normalized spectrum multiplied by it.
ReddenCell ==
  /\ Ready("redden")
  /\ ReddenBind([ns EXCEPT !.ext = [law |-> "CCM89", Rv |-> 3100], !.Av = 2000,
                           !.wav = [start |-> 100, stop |-> 3000, step |-> 1]])

\* sp_obs_before = Observation(sp_norm, v_band), with c its overlap check
ObserveBefore(h, nsv, c) ==
  IF c.err # "" THEN Raise(c.err, h, nsv)
  ELSE /\ heap' = Append(h, Observation(nsv.sp_norm, nsv.v_band, c.extrap))
       /\ ns' = [nsv EXCEPT !.sp_obs_before = Len(h) + 1]
       /\ pc' = pc + 1
       /\ UNCHANGED <<par, call, world, loop_i, err, out>>

\* sp_obs = Observation(sp_ext, v_band), with c its overlap check
ObserveDust(c) ==
  IF c.err # "" THEN Raise(c.err, heap, ns)
  ELSE ObserveBefore(Append(heap, Observation(ns.sp_ext, ns.v_band, c.extrap)),
                     [ns EXCEPT !.sp_obs = Len(heap) + 1],
                     ObservationCheck(heap[ns.sp_norm], heap[ns.v_band], "none"))

\* The spectrum with dust and the one without, observed in V.
ObserveCell ==
  /\ Ready("observe")
  /\ ObserveDust(ObservationCheck(heap[ns.sp_ext], heap[ns.v_band], "none"))

\* The two prints and Av_calc = sp_stim - sp_stim_before, printed.
AvCalcPrint(m0, m1, a) ==
  /\ ns' = [ns EXCEPT !.sp_stim_before = m0, !.sp_stim = m1, !.Av_calc = a]
  /\ out' = out \o << [kind |-> "print", what |-> "before dust, V =", val |-> Round1(m0)],
                      [kind |-> "print", what |-> "after dust, V =", val |-> Round1(m1)],
                      [kind |-> "print", what |-> "$A_V$ = ", val |-> Round1(a)] >>
  /\ pc' = pc + 1
  /\ UNCHANGED <<par, call, world, loop_i, err, heap>>

\* A variant that keeps in Av_calc the rounded value it prints.
AvCalcDustRounded(m0, m1) ==
  IF m1.err # "" THEN Raise(m1.err, heap, [ns EXCEPT !.sp_stim_before = m0])
  ELSE AvCalcPrint(m0, m1.val, Round1(Extinction(m1.val, m0)))

\* sp_stim = sp_obs.effstim(...), with m1 its outcome
AvCalcDust(m0, m1) ==
  IF m1.err # "" THEN Raise(m1.err, heap, [ns EXCEPT !.sp_stim_before = m0])
  ELSE AvCalcPrint(m0, m1.val, Extinction(m1.val, m0))

\* sp_stim_before = sp_obs_before.effstim(...), with m0 its outcome
AvCalcBefore(m0) ==
  IF m0.err # "" THEN Raise(m0.err, heap, ns)
  ELSE AvCalcDust(m0.val, ObsEffStim(heap, ns.sp_obs, ns.vega))

\* The V magnitudes before and after dust, and their difference Av_calc.
AvCalcCell ==
  /\ Ready("av_calc")
  /\ AvCalcBefore(ObsEffStim(heap, ns.sp_obs_before, ns.vega))

\* bands = [u_band, ..., k_band], before the first iteration of the loop
BandLoopBegin ==
  /\ Ready("band_loop")
  /\ loop_i = 0
  /\ ns' = [ns EXCEPT !.bands = << ns.u_band, ns.b_band, ns.v_band, ns.r_band,
                                   ns.i_band, ns.j_band, ns.h_band, ns.k_band >>]
  /\ loop_i' = 1
  /\ UNCHANGED <<par, call, world, pc, err, heap, out>>

\* plt.plot(effective wavelength, color_excess) and the printed row
LoopRow(h, nsv, wl, ce) ==
  /\ heap' = h
  /\ ns' = [nsv EXCEPT !.color_excess = ce]
  /\ out' = out \o << [kind |-> "point", band |-> nsv.band, wl |-> wl, ce |-> ce],
                      [kind |-> "row", band |-> nsv.band, wl |-> wl, ce |-> Round2(ce)] >>
  /\ loop_i' = loop_i + 1
  /\ UNCHANGED <<par, call, world, pc, err>>

\* color_excess = obs_effstim - obs_i_effstim - Av_calc
LoopColorExcess(h, nsv) ==
  LoopRow(h, nsv, FToInt(ObsEffectiveWavelength(h, nsv.sp_obs_i)),
          ColorExcess(Extinction(nsv.obs_effstim, nsv.obs_i_effstim), nsv.Av_calc))

\* obs_i_effstim = sp_obs_i.effstim(...), with m its outcome
LoopEffStimBefore(h, nsv, m) ==
  IF m.err # "" THEN Raise(m.err, h, nsv)
  ELSE LoopColorExcess(h, [nsv EXCEPT !.obs_i_effstim = m.val])

\* sp_obs_i = Observation(sp_norm, band, force="extrap"), with c its check
LoopObserveBefore(h, nsv, c) ==
  IF c.err # "" THEN Raise(c.err, h, nsv)
  ELSE LoopEffStimBefore(Append(h, Observation(nsv.sp_norm, nsv.band, c.extrap)),
                         [nsv EXCEPT !.sp_obs_i = Len(h) + 1],
                         EffStim(h[nsv.sp_norm], h[nsv.band], c.extrap, h[nsv.vega]))

\* obs_effstim = sp_obs.effstim(...), with m its outcome
LoopEffStimDust(h, nsv, m) ==
  IF m.err # "" THEN Raise(m.err, h, nsv)
  ELSE LoopObserveBefore(h, [nsv EXCEPT !.obs_effstim = m.val],
                         ObservationCheck(h[nsv.sp_norm], h[nsv.band], "extrap"))

\* sp_obs = Observation(sp_ext, band, force="extrap"), with c its check
LoopObserveDust(nsv, c) ==
  IF c.err # "" THEN Raise(c.err, heap, nsv)
  ELSE LoopEffStimDust(Append(heap, Observation(nsv.sp_ext, nsv.band, c.extrap)),
                       [nsv EXCEPT !.sp_obs = Len(heap) + 1],
                       EffStim(heap[nsv.sp_ext], heap[nsv.band], c.extrap,
                               heap[nsv.vega]))

\* for band in bands: the loop variable bound to the next band
LoopBand(nsv) ==
  LoopObserveDust(nsv, ObservationCheck(heap[nsv.sp_ext], heap[nsv.band], "extrap"))

\* One iteration of "for band in bands": the band observed with and without
\* dust, extrapolating; the color excess relative to Av_calc; one point
\* plotted and one row printed.
BandLoopStep ==
  /\ Ready("band_loop")
  /\ loop_i \in 1 .. Len(ns.bands)
  /\ LoopBand([ns EXCEPT !.band = ns.bands[loop_i]])

\* After the loop: the model curve Av * ext(wav) - Av, plotted.
BandLoopEnd ==
  /\ Ready("band_loop")
  /\ loop_i = Len(ns.bands) + 1
  /\ IF LawInRange(ns.ext, Grid(ns.wav))
     THEN /\ out' = Append(out, [kind |-> "plot", cell |-> "band_loop"])
          /\ pc' = pc + 1
          /\ UNCHANGED <<par, call, world, loop_i, err, heap, ns>>
     ELSE Raise("ValueError", heap, ns)

Next ==
  \/ Example1
  \/ ReadSpectrum
  \/ QuerySimbad
  \/ ZeroPoints
  \/ Convert
  \/ MagToFluxCell
  \/ PlotSpectrum
  \/ SetExtinction
  \/ PlotDereddened
  \/ Filters
  \/ NormalizeCell
  \/ ReddenCell
  \/ ObserveCell
  \/ AvCalcCell
  \/ BandLoopBegin
  \/ BandLoopStep
  \/ BandLoopEnd

Spec == Init /\ [][Next]_vars

(***************************************************************************)
(* Properties of the notebook run.                                         *)
(***************************************************************************)
CellIndex(c) == CHOOSE i \in DOMAIN Cells : Cells[i] = c

\* The cell named c has run to its end.
After(c) == pc > CellIndex(c)

\* The run is at the cell named c (about to run it, inside it, or stopped
\* in it by an exception).
At(c) == pc = CellIndex(c)

\* At least one iteration of the band loop has completed and none has
\* stopped halfway, so the names of the loop body hold the values of the
\* last completed iteration.
RowDone == err = "" /\ ((At("band_loop") /\ loop_i >= 2) \/ After("band_loop"))

\* C1: color excess at the reference band is zero by construction.  When an
\* iteration of the band loop finds the extinction that is also the
\* reference (Av_calc), its color excess is exactly 0; this is the case of
\* the V band, whose plotted point and printed row are exactly 0.
C1_ReferenceZero ==
  /\ RowDone /\ Extinction(ns.obs_effstim, ns.obs_i_effstim) = ns.Av_calc
       => ns.color_excess = 0
  /\ \A i \in DOMAIN out :
       out[i].kind \in {"point", "row"} /\ out[i].band = ns.v_band => out[i].ce = 0

\* The V iteration has run, with a non-zero extinction as the reference.
C1_Witness ==
  /\ ns.Av_calc > 0
  /\ \E i \in DOMAIN out :
       out[i].kind = "row" /\ out[i].band = ns.v_band /\ out[i].ce = 0

VObsDust == ns.sp_obs_before - 1

\* The magnitudes of the two V observations of the observe cell differ by
\* Av_calc, and the last completed iteration of the loop has the color
\* excess of its two magnitudes relative to Av_calc.
C2_Values ==
  /\ After("av_calc") =>
       /\ ns.sp_stim_before = ObsEffStim(heap, ns.sp_obs_before, ns.vega).val
       /\ ns.sp_stim = ObsEffStim(heap, VObsDust, ns.vega).val
       /\ ns.Av_calc = ns.sp_stim - ns.sp_stim_before
  /\ RowDone =>
       /\ ns.obs_i_effstim = ObsEffStim(heap, ns.sp_obs_i, ns.vega).val
       /\ ns.color_excess = (ns.obs_effstim - ns.obs_i_effstim) - ns.Av_calc

\* An exception in the Av_calc cell or in an iteration of the loop is the
\* exception of one of the observations it reads.
C2_Failures ==
  /\ err # "" /\ At("av_calc") =>
       err \in { ObsEffStim(heap, ns.sp_obs_before, ns.vega).err,
                 ObsEffStim(heap, ns.sp_obs, ns.vega).err }
  /\ err # "" /\ At("band_loop") /\ loop_i <= Len(ns.bands) =>
       err \in { ObservationCheck(heap[ns.sp_ext], heap[ns.band], "extrap").err,
                 ObservationCheck(heap[ns.sp_norm], heap[ns.band], "extrap").err,
                 EffStim(heap[ns.sp_ext], heap[ns.band], TRUE, heap[ns.vega]).err,
                 EffStim(heap[ns.sp_norm], heap[ns.band], TRUE, heap[ns.vega]).err,
                 EffStim(heap[ns.sp_ext], heap[ns.band], FALSE, heap[ns.vega]).err,
                 EffStim(heap[ns.sp_norm], heap[ns.band], FALSE, heap[ns.vega]).err } \ {""}

\* A step of the Av_calc cell or of the band loop leaves every object of the
\* heap as it was, and a step of the loop leaves the values computed by the
\* Av_calc cell as they were.
C2_Frame ==
  (At("av_calc") \/ At("band_loop")) =>
    /\ \A i \in DOMAIN heap : heap'[i] = heap[i]
    /\ At("band_loop") =>
         /\ ns'.sp_stim = ns.sp_stim
         /\ ns'.sp_stim_before = ns.sp_stim_before
         /\ ns'.Av_calc = ns.Av_calc

\* C2: the extinction is the magnitude with dust minus the magnitude without
\* dust and the color excess is the extinction at the band minus the
\* extinction at the reference; computing them changes no spectrum, passband,
\* observation or earlier value, and fails only with the failure of one of
\* the observations read.
C2_ExtinctionIsDifference == [](C2_Values /\ C2_Failures) /\ [][C2_Frame]_vars

\* Three iterations of the loop have completed with a non-zero color excess
\* in the last one.
C2_Witness ==
  /\ At("band_loop") /\ loop_i >= 4 /\ err = ""
  /\ ns.Av_calc # 0 /\ ns.color_excess # 0

\* The blackbody, the normalized spectrum and the reddening curve, computed
\* afresh from what the world holds.
FreshNormalized ==
  Normalize(BlackBody(world.temperature), 10000, FromFilter(world.filters, "v"),
            FromVega).val

FreshCurve ==
  ExtinctionCurve([law |-> "CCM89", Rv |-> 3100], RoundDiv(2000 * 1000, 3100),
                  Arange(100, 3000, 1)).val

\* C6: normalization and the reddening multiplication produce new spectra
\* and leave their operands as they were: sp after the normalization,
\* sp_norm and ex after the multiplication; the magnitude without dust of
\* every later iteration is that of the normalized, unreddened spectrum.
C6_OperandsUnchanged ==
  /\ After("normalize") \/ (At("normalize") /\ ns.sp # 0) =>
       heap[ns.sp] = BlackBody(world.temperature)
  /\ After("normalize") =>
       /\ ns.sp_norm # ns.sp
       /\ heap[ns.sp_norm] = FreshNormalized
  /\ After("redden") =>
       /\ ns.sp_ext \notin {ns.sp_norm, ns.ex, ns.sp}
       /\ heap[ns.ex] = FreshCurve
       /\ heap[ns.sp_ext] = Multiply(FreshNormalized, FreshCurve)
  /\ RowDone =>
       /\ heap[ns.sp_obs_i].spec = ns.sp_norm
       /\ ns.obs_i_effstim =
            EffStim(FreshNormalized, heap[ns.band], heap[ns.sp_obs_i].extrap, FromVega).val

\* The loop has observed the normalized spectrum after the multiplication
\* produced a spectrum that differs from it.
C6_Witness ==
  /\ RowDone
  /\ heap[ns.sp_ext] # heap[ns.sp_norm]
  /\ heap[ns.sp_norm] # heap[ns.sp]

\* The points and rows of the output that belong to the band object b.
BandOutput(b) == {i \in DOMAIN out : out[i].kind \in {"point", "row"} /\ out[i].band = b}

\* The fluxes of a dereddened plot are all finite.
FinitePlot(p) ==
  /\ \A i \in DOMAIN p.UV : IsFin(p.UV[i])
  /\ IsFin(p.U) /\ IsFin(p.B) /\ IsFin(p.V)

\* A stopped run stands at the cell that raised; the band loop has put out
\* one point and one row for each completed band and nothing for the band
\* at hand; no plotted flux is inf or nan.
StoppedAtRaise ==
  /\ err # "" => pc <= Len(Cells)
  /\ At("band_loop") /\ loop_i \in 1 .. Len(ns.bands) =>
       /\ BandOutput(ns.bands[loop_i]) = {}
       /\ \A k \in 1 .. loop_i - 1 : Cardinality(BandOutput(ns.bands[k])) = 2
  /\ \A i \in DOMAIN out : out[i].kind = "semilogy" => FinitePlot(out[i])

\* The step that raises puts out nothing and leaves the position of the run,
\* and no step follows it.
RaisingStep ==
  /\ err = ""
  /\ err' # "" => out' = out /\ pc' = pc /\ loop_i' = loop_i

\* In the run of the notebook an error surfaces at the operation that
\* detects it: the run stops there, nothing runs after it, and when an
\* iteration of the band loop fails no point and no row, whole or partial,
\* is put out for the failing band.
LoopErrorsSurface == []StoppedAtRaise /\ [][RaisingStep]_vars

\* The band loop stopped in its seventh iteration, the rows of the six
\* bands before it printed.
LoopStopped ==
  /\ err = "DisjointError" /\ At("band_loop") /\ loop_i = 7
  /\ Cardinality({i \in DOMAIN out : out[i].kind = "row"}) = 6

(***************************************************************************)
(* Second specification: each operation of the notebook applied on its own *)
(* to arguments drawn from bounded sets.  call records the arguments and   *)
(* the outcome; the notebook's own variables stay as they start.           *)
(***************************************************************************)
\* Magnitudes (in 1/1000): those of the catalogue, vmag, and others.
TestMags == {-3000, -1500, 0, 10, 20, 4930, 5020, 5260, 10000, 12345}

\* Zero points: those of U, B and V.
TestZeroFluxes ==
  { SpectralDensity(FDec(181, -25), 366), SpectralDensity(FDec(426, -25), 440),
    SpectralDensity(FDec(364, -25), 553) }

\* Fluxes: samples of the IUE spectra, photometric fluxes, and 0.
TestFluxes ==
  { FDec(n, -13) : n \in {0, 31, 77, 120, 133, 310, 540, 980} }
    \cup { MagToFlux(SpectralDensity(FDec(364, -25), 553), m) : m \in {5020, 5051} }

\* Extinction models: those of Examples 2 and 3.
TestLaws == { [law |-> "F99", Rv |-> 5000], [law |-> "CCM89", Rv |-> 3100] }

\* Reddenings E(B-V) in 1/1000: none, Ebv = 0.5, and Av / Rv = 2.0 / 3.1.
TestEbv == {0, 500, 645}

\* Transmissions: ext.extinguish at the wavelengths of Example 2, and a
\* transmission that is exactly 0.0 (10 ** x underflows for A(lambda) above
\* some 1850 magnitudes).
TestTransmissions ==
  { Extinguish(e, w, b) : e \in TestLaws, w \in {200, 218, 250, 300, 366, 440, 553},
                          b \in TestEbv } \cup {FZero}

\* Wavelength grids as np.arange records: the grid of Examples 1 and 3, the
\* wavelengths of Example 2, and grids that leave the range of the models
\* at the short and at the long end.
TestGrids ==
  { [start |-> 100, stop |-> 3000, step |-> 1],
    [start |-> 200, stop |-> 554, step |-> 1],
    [start |-> 95, stop |-> 300, step |-> 5],
    [start |-> 99, stop |-> 100, step |-> 1],
    [start |-> 3000, stop |-> 3334, step |-> 111],
    [start |-> 3000, stop |-> 3335, step |-> 167],
    [start |-> 3334, stop |-> 3400, step |-> 50] }

InitFn ==
  /\ world = CHOOSE w \in Worlds : w.temperature = 10000
  /\ pc = Len(Cells) + 1
  /\ loop_i = 0
  /\ err = ""
  /\ heap = << >>
  /\ ns = NS0
  /\ out = << >>
  /\ call = NoCall
  /\ par = NoPar

\* The outcome r = [err, val] of the operation op on the arguments args.
Returns(op, args, r) ==
  /\ call' = [op |-> op, args |-> args, err |-> r.err,
              val |-> IF r.err = "" THEN r.val ELSE 0]
  /\ UNCHANGED <<par, world, pc, loop_i, err, heap, ns, out>>

\* ext(wav): the values of the model over the grid; "ValueError" when a
\* wavelength is outside the model's range.
Evaluate(ext, wav) ==
  IF ~LawInRange(ext, wav) THEN [err |-> "ValueError"]
  ELSE [err |-> "", val |-> [w \in {Min(wav), Max(wav)} |-> LawValue(ext, w)]]

\* zeroflux * 10.0 ** (-0.4 * mag) for a magnitude and a zero point
ApplyMagToFlux ==
  /\ call = NoCall
  /\ \E m \in TestMags, z \in TestZeroFluxes :
       Returns("mag_to_flux", [mag |-> m, zero |-> z],
               [err |-> "", val |-> MagToFlux(z, m)])

\* -2.5 log10(flux / zeroflux), of the flux just computed from a magnitude
\* or of a flux given
ApplyFluxToMag ==
  \/ /\ call.op = "mag_to_flux"
     /\ Returns("flux_to_mag",
                [flux |-> call.val, zero |-> call.args.zero, mag |-> call.args.mag],
                FluxToMag(call.val, call.args.zero))
  \/ /\ call = NoCall
     /\ \E f \in TestFluxes, z \in TestZeroFluxes :
          Returns("flux_to_mag_of", [flux |-> f, zero |-> z], FluxToMag(f, z))

\* flux * ext.extinguish(...)
ApplyRedden ==
  /\ call = NoCall
  /\ \E f \in TestFluxes, t \in TestTransmissions :
       Returns("redden", [flux |-> f, trans |-> t], [err |-> "", val |-> Redden(f, t)])

\* flux / ext.extinguish(...), of the flux just reddened or of a flux given
ApplyDeredden ==
  \/ /\ call.op = "redden"
     /\ Returns("deredden",
                [flux |-> call.val, trans |-> call.args.trans, orig |-> call.args.flux],
                [err |-> "", val |-> Deredden(call.val, call.args.trans)])
  \/ /\ call = NoCall
     /\ \E f \in TestFluxes, t \in TestTransmissions :
          Returns("deredden_of", [flux |-> f, trans |-> t],
                  [err |-> "", val |-> Deredden(f, t)])

\* ext(wav)
ApplyEvaluate ==
  /\ call = NoCall
  /\ \E e \in TestLaws, g \in TestGrids :
       Returns("evaluate", [ext |-> e, wav |-> g], Evaluate(e, Grid(g)))

\* Sources: the blackbody at each temperature; tables of the 10000 K flux
\* over part of the wavelengths only (an observed spectrum covers a range);
\* and a table of zero flux.
TestDomains ==
  { <<330, 2460>>, <<480, 2460>>, <<490, 2460>>, <<550, 2460>>, <<700, 2460>>,
    <<330, 550>>, <<330, 440>> }

TestSources ==
  { [kind |-> "blackbody", T |-> T, lo |-> 0, hi |-> 0] : T \in Temperatures }
    \cup { [kind |-> "table", T |-> 10000, lo |-> d[1], hi |-> d[2]] : d \in TestDomains }
    \cup { [kind |-> "dark", T |-> 0, lo |-> 330, hi |-> 2460] }

MakeSource(d) ==
  CASE d.kind = "blackbody" -> BlackBody(d.T)
    [] d.kind = "table" -> Source("empirical", d.lo, d.hi, BlackBody(d.T).flux)
    [] d.kind = "dark" -> Source("empirical", d.lo, d.hi, [w \in Pts |-> FZero])

\* Passbands: the eight bands of each set of files, and a V band whose file
\* has a long tail of low throughput on the blue side.
TestBands ==
  { [fs |-> fs, name |-> BandNames[i]] : fs \in FilterSets, i \in DOMAIN BandNames }
    \cup { [fs |-> "tail", name |-> "v"] }

MakeBand(d) ==
  IF d.fs = "tail"
  THEN Element(<<440, 480, 550, 640>>,
               [i \in 1 .. 4 |-> FDiv(FromInt(<<1, 1, 90, 20>>[i]), FromInt(100))])
  ELSE FromFilter(d.fs, d.name)

\* Whether the wavelength set of a source covers the support of a band.
Covers(sp, band) == sp.wlo <= Min(Support(band)) /\ Max(Support(band)) <= sp.whi

\* Observation(sp, band, force=force).effstim(...): the check of the
\* constructor, then the magnitude; val is the magnitude.
ObserveMag(sp, band, force, c) ==
  IF c.err # "" THEN [err |-> c.err]
  ELSE EffStim(sp, band, c.extrap, FromVega)

Observe(sp, band, force) ==
  ObserveMag(sp, band, force, ObservationCheck(sp, band, force))

\* sp.normalize(m, band, vegaspec=vega), then the observation of the result
\* through the same band
ObserveNormalized(band, r) ==
  IF r.err # "" THEN [err |-> r.err] ELSE Observe(r.val, band, "none")

NormalizeObserve(sp, m, band) ==
  ObserveNormalized(band, Normalize(sp, m, band, FromVega))

\* Observation(sp, band, force=...), strict or extrapolating
ApplyObserve ==
  /\ call = NoCall
  /\ \E s \in TestSources, b \in TestBands, f \in {"none", "extrap"} :
       Returns("observe", [src |-> s, band |-> b, force |-> f],
               Observe(MakeSource(s), MakeBand(b), f))

\* sp.normalize(...) and the observation of the normalized spectrum
ApplyNormalizeObserve ==
  /\ call = NoCall
  /\ \E s \in TestSources, b \in TestBands, m \in {0, 5020, 10000, 12345} :
       Returns("normalize_observe", [src |-> s, band |-> b, mag |-> m],
               NormalizeObserve(MakeSource(s), m, MakeBand(b)))

NextFn ==
  \/ ApplyMagToFlux
  \/ ApplyFluxToMag
  \/ ApplyRedden
  \/ ApplyDeredden
  \/ ApplyEvaluate
  \/ ApplyObserve
  \/ ApplyNormalizeObserve

SpecFn == InitFn /\ [][NextFn]_vars

(***************************************************************************)
(* Properties of the operations.                                           *)
(***************************************************************************)
Abs(x) == IF x < 0 THEN - x ELSE x

\* C4: a spectrum normalized to the magnitude m in a band and then observed
\* in the same band with the same zero point has the magnitude m within
\* 0.01 mag (10 in 1/1000 mag).
C4_NormalizeReproduces ==
  call.op = "normalize_observe" /\ call.err = "" =>
    Abs(call.val - call.args.mag) <= 10

\* A table that does not cover the whole band was normalized to 12.345 mag
\* and observed.
C4_Witness ==
  /\ call.op = "normalize_observe" /\ call.err = ""
  /\ call.args.src.kind = "table" /\ call.args.src.lo = 480
  /\ call.args.band.fs = "tail" /\ call.args.mag = 12345
  /\ Abs(call.val - call.args.mag) <= 10

\* The call divided by a transmission that is neither zero nor the result
\* of a zero flux.
RoundTrip == call.op = "deredden" /\ IsPos(call.args.trans) /\ IsFin(call.val)

C8_ZeroTransmissionFails ==
  call.op \in {"deredden", "deredden_of"} /\ call.args.trans = FZero =>
    call.err = "ZeroTransmission"

\* A positive flux was divided by a zero transmission: no exception, and
\* the result is infinite.
C8_Witness ==
  /\ call.op = "deredden_of" /\ call.args.trans = FZero /\ IsPos(call.args.flux)
  /\ call.err = "" /\ call.val = FInf

\* The exceptions of the constructor's overlap check.
OverlapErrors == {"PartialOverlap", "DisjointError"}

\* The source, the band and the overlap of the observe call.
CallSource == MakeSource(call.args.src)
CallBand == MakeBand(call.args.band)
CallOverlap == CheckOverlap(CallBand, CallSource)

C11_NoNonFiniteResult ==
  call.op \in {"mag_to_flux", "redden", "deredden", "deredden_of"} /\ call.err = ""
    => IsFin(call.val)

\* A flux reddened with a transmission of exactly 0.0 and then dereddened
\* came back as nan, no error raised.
C11_Witness ==
  /\ call.op = "deredden" /\ call.args.trans = FZero
  /\ call.err = "" /\ call.val = FNaN

(***************************************************************************)
(* Third specification: after the run of the notebook, the iterations of   *)
(* the band loop are run again as tasks by workers whose statements        *)
(* interleave.  A task is one iteration of "for band in bands" (lines      *)
(* 618-630) for the band handed to it; the names the iteration binds       *)
(* (sp_obs, obs_effstim, sp_obs_i, obs_i_effstim, color_excess) are the    *)
(* task's own, and it reads the notebook's sp_ext, sp_norm, vega, bands    *)
(* and Av_calc.  An observation a task creates is referred to by that      *)
(* task's name alone, so the name holds the object itself.  A step of a    *)
(* task is the observation of one spectrum (the Observation and its        *)
(* effstim) or the row.                                                    *)
(***************************************************************************)
NumWorkers == 2
Workers == 1 .. NumWorkers

Idle == [band |-> 0, step |-> 0, sp_obs |-> 0, obs_effstim |-> 0,
         sp_obs_i |-> 0, obs_i_effstim |-> 0]
NoResult == [done |-> FALSE, err |-> "", wl |-> 0, ce |-> 0,
             obs_effstim |-> 0, obs_i_effstim |-> 0]

\* The run of the notebook is over: all cells done, or the band loop stopped.
SequentialOver == pc > Len(Cells) \/ (err # "" /\ At("band_loop"))

InitPar ==
  /\ Init
  /\ world.iue = CHOOSE s \in IueSpectra : TRUE
  /\ world.phot = CHOOSE s \in Photometry : TRUE
  /\ world.temperature \in {10000, 30000}
  /\ world.filters = "peaked"

\* The workers start, no band handed out yet.
ParStart ==
  /\ par = NoPar /\ SequentialOver
  /\ par' = [next |-> 1, tasks |-> [w \in Workers |-> Idle],
             results |-> [k \in DOMAIN ns.bands |-> NoResult]]
  /\ UNCHANGED <<world, pc, loop_i, err, heap, ns, out, call>>

\* for band in bands: an idle worker takes the next band of the list (the
\* first of the idle workers: they are alike).
TaskTake(w) ==
  /\ par.next > 0 /\ par.tasks[w].step = 0 /\ par.next \in DOMAIN ns.bands
  /\ \A v \in Workers : v < w => par.tasks[v].step # 0
  /\ par' = [par EXCEPT !.next = @ + 1,
                        !.tasks[w] = [Idle EXCEPT !.band = par.next, !.step = 1]]
  /\ UNCHANGED <<world, pc, loop_i, err, heap, ns, out, call>>

\* The task of w stops with the exception e: its band has no row.
TaskRaise(w, t, e) ==
  par' = [par EXCEPT !.tasks[w] = Idle,
                     !.results[t.band] = [NoResult EXCEPT !.done = TRUE, !.err = e]]

\* The task of w goes on to its next statement with the names t.
TaskGoOn(w, t) == par' = [par EXCEPT !.tasks[w] = [t EXCEPT !.step = @ + 1]]

\* o.effstim(flux_unit="vegamag", vegaspec=vega) of a task's observation o
TaskObsEffStim(o) == ObsEffStim(Append(heap, o), Len(heap) + 1, ns.vega)

\* o.effective_wavelength() of a task's observation o
TaskObsEffectiveWavelength(o) == ObsEffectiveWavelength(Append(heap, o), Len(heap) + 1)

\* The effstim of the observation o just created, with m its outcome;
\* bind(o, v) is the task's names with the observation and the magnitude.
TaskEffStim(w, t, o, m, bind(_, _)) ==
  IF m.err # "" THEN TaskRaise(w, t, m.err) ELSE TaskGoOn(w, bind(o, m.val))

\* An Observation of the spectrum sp through the band of the task, with c
\* its overlap check, and its effstim.
TaskObserve(w, t, sp, c, bind(_, _)) ==
  IF c.err # "" THEN TaskRaise(w, t, c.err)
  ELSE TaskEffStim(w, t, Observation(sp, ns.bands[t.band], c.extrap),
                   TaskObsEffStim(Observation(sp, ns.bands[t.band], c.extrap)), bind)

\* sp_obs = Observation(sp_ext, band, force="extrap")
\* obs_effstim = sp_obs.effstim(flux_unit="vegamag", vegaspec=vega)
TaskObserveDust(w) ==
  /\ par.next > 0 /\ par.tasks[w].step = 1
  /\ LET t == par.tasks[w]
         bind(o, v) == [t EXCEPT !.sp_obs = o, !.obs_effstim = v]
     IN TaskObserve(w, t, ns.sp_ext,
                    ObservationCheck(heap[ns.sp_ext], heap[ns.bands[t.band]], "extrap"),
                    bind)
  /\ UNCHANGED <<world, pc, loop_i, err, heap, ns, out, call>>

\* sp_obs_i = Observation(sp_norm, band, force="extrap")
\* obs_i_effstim = sp_obs_i.effstim(flux_unit="vegamag", vegaspec=vega)
TaskObserveBefore(w) ==
  /\ par.next > 0 /\ par.tasks[w].step = 2
  /\ LET t == par.tasks[w]
         bind(o, v) == [t EXCEPT !.sp_obs_i = o, !.obs_i_effstim = v]
     IN TaskObserve(w, t, ns.sp_norm,
                    ObservationCheck(heap[ns.sp_norm], heap[ns.bands[t.band]], "extrap"),
                    bind)
  /\ UNCHANGED <<world, pc, loop_i, err, heap, ns, out, call>>

\* The row of a task whose names are t, the task done.
TaskResult(w, t, wl, ce) ==
  par' = [par EXCEPT !.tasks[w] = Idle,
                     !.results[t.band] =
                        [done |-> TRUE, err |-> "", wl |-> wl, ce |-> ce,
                         obs_effstim |-> t.obs_effstim,
                         obs_i_effstim |-> t.obs_i_effstim]]

\* A variant of the last statements that reads the notebook's global names
\* in the place of the task's own.
TaskRowGlobalNames(w, t) ==
  TaskResult(w, t, FToInt(ObsEffectiveWavelength(heap, ns.sp_obs_i)),
             ColorExcess(Extinction(ns.obs_effstim, ns.obs_i_effstim), ns.Av_calc))

\* color_excess = obs_effstim - obs_i_effstim - Av_calc, and the row of
\* sp_obs_i.effective_wavelength() and color_excess
TaskRow(w, t) ==
  TaskResult(w, t, FToInt(TaskObsEffectiveWavelength(t.sp_obs_i)),
             ColorExcess(Extinction(t.obs_effstim, t.obs_i_effstim), ns.Av_calc))

TaskColorExcess(w) ==
  /\ par.next > 0 /\ par.tasks[w].step = 3
  /\ TaskRow(w, par.tasks[w])
  /\ UNCHANGED <<world, pc, loop_i, err, heap, ns, out, call>>

NextPar ==
  \/ ParStart
  \/ \E w \in Workers : TaskTake(w)
  \/ \E w \in Workers : TaskObserveDust(w)
  \/ \E w \in Workers : TaskObserveBefore(w)
  \/ \E w \in Workers : TaskColorExcess(w)

SpecPar == InitPar /\ [][Next \/ NextPar]_vars

\* The point the sequential loop plotted for the k-th band, if any.
SeqPoints(k) == {i \in DOMAIN out : out[i].kind = "point" /\ out[i].band = ns.bands[k]}

LoopBandCovered ==
  /\ RowDone
  /\ Covers(heap[ns.sp_ext], heap[ns.band]) /\ Covers(heap[ns.sp_norm], heap[ns.band])

\* C13: when the spectrum covers the support of the band, the extrapolating
\* observation of the loop has the magnitude of the strict observation of
\* the same spectrum and band; the V band is covered, so in the V iteration
\* the magnitudes are those of the Av_calc cell, the color excess is
\* exactly 0, and the point and the row of the V band show 0.
C13_StrictAsExtrapWhenCovered ==
  /\ LoopBandCovered =>
       /\ Observe(heap[ns.sp_ext], heap[ns.band], "none") = [err |-> "", val |-> ns.obs_effstim]
       /\ Observe(heap[ns.sp_norm], heap[ns.band], "none") = [err |-> "", val |-> ns.obs_i_effstim]
  /\ RowDone /\ ns.band = ns.v_band =>
       /\ LoopBandCovered
       /\ ns.obs_effstim = ns.sp_stim /\ ns.obs_i_effstim = ns.sp_stim_before
       /\ ns.color_excess = 0
  /\ \A i \in BandOutput(ns.v_band) : After("observe") => out[i].ce = 0

\* The V iteration has just completed, observed with force="extrap", with
\* two magnitudes of dust between the V magnitudes.
C13_Witness ==
  /\ RowDone /\ At("band_loop") /\ ns.band = ns.v_band
  /\ BandOutput(ns.v_band) # {}
  /\ ns.obs_effstim - ns.obs_i_effstim > 1900

(***************************************************************************)
(* Fourth specification: the run of the notebook, in which the reader may, *)
(* between two cells after the reddening cell of Example 3, run again a    *)
(* cell of Example 1 or Example 2 that binds ext.  call records the cell   *)
(* run again.                                                              *)
(***************************************************************************)
\* Between two cells, after the reddening cell, no exception raised and no
\* cell run again yet.
BetweenCellsAfterRedden ==
  /\ After("redden") /\ err = "" /\ (At("band_loop") => loop_i = 0)
  /\ call = NoCall

Rerun(cell) == [op |-> "rerun", args |-> [cell |-> cell], err |-> "", val |-> 0]

\* The Example 1 cell run again: wav, and ext left at the last model of the
\* loop, F99(Rv=4.0); the curves plotted.
RerunExample1 ==
  /\ BetweenCellsAfterRedden
  /\ ns' = [ns EXCEPT !.wav = [start |-> 100, stop |-> 3000, step |-> 1],
                      !.ext = [law |-> "F99", Rv |-> 4000]]
  /\ out' = Append(out, [kind |-> "plot", cell |-> "example1"])
  /\ call' = Rerun("example1")
  /\ UNCHANGED <<par, world, pc, loop_i, err, heap>>

\* The Example 2 cell Rv = 5.0; Ebv = 0.5; ext = F99(Rv=Rv) run again.
RerunSetExtinction ==
  /\ BetweenCellsAfterRedden
  /\ ns' = [ns EXCEPT !.Rv = 5000, !.Ebv = 500, !.ext = [law |-> "F99", Rv |-> 5000]]
  /\ call' = Rerun("set_extinction")
  /\ UNCHANGED <<par, world, pc, loop_i, err, heap, out>>

NextRerun == RerunExample1 \/ RerunSetExtinction

SpecRerun == Init /\ [][Next \/ NextRerun]_vars

\* The wavelengths of np.arange(0.1, 3.0, 0.001) micron that an extinction
\* curve of the model keeps: those of Pts and the two ends.
GridKept == (Pts \cap Arange(100, 3000, 1)) \cup {100, 2999}

\* The extinction curves of Av = 2.0 over that grid that the F99 models
\* ext can be bound to give.
CurveF99Rv4 ==
  ExtinctionCurve([law |-> "F99", Rv |-> 4000], RoundDiv(2000 * 1000, 4000), GridKept).val

CurveF99Rv5 ==
  ExtinctionCurve([law |-> "F99", Rv |-> 5000], RoundDiv(2000 * 1000, 5000), GridKept).val

CurveOf(e) ==
  CASE e = [law |-> "CCM89", Rv |-> 3100] -> FreshCurve
    [] e = [law |-> "F99", Rv |-> 4000] -> CurveF99Rv4
    [] e = [law |-> "F99", Rv |-> 5000] -> CurveF99Rv5

\* sp_ext is sp_norm reddened with the model e, for Av = 2.0 over wav.
ReddenedWith(e) ==
  /\ ns.Av = 2000 /\ ns.wav = [start |-> 100, stop |-> 3000, step |-> 1]
  /\ heap[ns.sp_ext] = Multiply(heap[ns.sp_norm], CurveOf(e))

\* The names as the cells leave them: ext and wav of Example 1, ext of
\* Example 2, v_band first bound with the passbands and bound anew in the
\* normalization cell; from the reddening cell on, with no cell run again,
\* ext is CCM89(Rv=3.1), Av is 2.0 and sp_ext is sp_norm reddened with them.
\* After a cell of Example 1 or 2 was run again, ext is an F99 model and
\* sp_ext is not sp_norm reddened with ext.
C14_Names ==
  /\ After("example1") /\ ~After("set_extinction") =>
       ns.ext = [law |-> "F99", Rv |-> 4000] /\ ns.wav = [start |-> 100, stop |-> 3000, step |-> 1]
  /\ After("set_extinction") /\ ~After("redden") => ns.ext = [law |-> "F99", Rv |-> 5000]
  /\ After("filters") /\ ~After("normalize") /\ err = "" => ns.v_band = 3
  /\ After("normalize") => ns.v_band > Len(BandNames) /\ heap[ns.v_band] = heap[3]
  /\ After("redden") /\ call = NoCall =>
       /\ ns.ext = [law |-> "CCM89", Rv |-> 3100] /\ ns.Av = 2000
       /\ ReddenedWith(ns.ext)
  /\ After("redden") /\ call # NoCall =>
       /\ ns.ext.law = "F99" /\ ns.Av = 2000
       /\ ns.wav = [start |-> 100, stop |-> 3000, step |-> 1]
       /\ ~ReddenedWith(ns.ext)
  /\ RowDone => ns.color_excess = (ns.obs_effstim - ns.obs_i_effstim)
                                    - (ns.sp_stim - ns.sp_stim_before)

\* No step of the band loop changes Av_calc, sp_norm, sp_ext, ext or Av, nor
\* the objects they refer to; no step but that of the Av_calc cell assigns
\* Av_calc; and no step after the reddening cell, a cell run again
\* included, changes sp_norm, sp_ext, Av or their objects.
C14_LoopFrame ==
  /\ At("band_loop") /\ call' = call =>
       ns'.Av_calc = ns.Av_calc /\ ns'.ext = ns.ext
  /\ After("redden") =>
       /\ ns'.Av = ns.Av /\ ns'.sp_norm = ns.sp_norm /\ ns'.sp_ext = ns.sp_ext
       /\ heap'[ns.sp_norm] = heap[ns.sp_norm] /\ heap'[ns.sp_ext] = heap[ns.sp_ext]
  /\ ns'.Av_calc # ns.Av_calc => At("av_calc")

\* C14: run top to bottom, the cells rebind ext, wav and v_band, and at the
\* band loop ext is CCM89(Rv=3.1), Av is 2.0 and sp_ext is sp_norm reddened
\* with them; Av_calc is assigned once, before the loop, and the loop
\* changes none of Av_calc, sp_norm, sp_ext, ext and Av, so every color
\* excess subtracts the same V extinction; a cell of Example 1 or 2 run
\* again after the reddening cell leaves ext in disagreement with sp_ext.
C14_NamesAtTheLoop == []C14_Names /\ [][C14_LoopFrame]_vars

\* The loop has run through after the Example 1 cell was run again: the
\* rows are those of CCM89(Rv=3.1) while ext is F99(Rv=4.0).
C14_Witness ==
  /\ call = Rerun("example1") /\ After("band_loop") /\ err = ""
  /\ ns.ext = [law |-> "F99", Rv |-> 4000]
  /\ Cardinality({i \in DOMAIN out : out[i].kind = "row"}) = Len(ns.bands)

=============================================================================
